---- MODULE Spec2Model ----
(***************************************************************************)
(* A model of the seq package (zot/seq, Go of 2010): the SlidingWindow     *)
(* ring buffer and the order-preserving concurrent map CMap with the       *)
(* operations built on it (CDo, CFilter, CFlatMap), consumed through       *)
(* ConcurrentSeq.Find; Gen's producers; and the materialized sequences     *)
(* (SequentialSeq) as slices over backing arrays, with the operations that *)
(* derive sequences from them (Append, Filter, Map, Combinations,          *)
(* Product).                                                               *)
(*                                                                         *)
(* Channels are the unbuffered channels of the Go release the package is   *)
(* written for (the one that still has the closed() builtin): a send and   *)
(* a receive meet in one step; a send on a closed channel does not block   *)
(* and its value is dropped; a receive on a closed channel returns the     *)
(* zero value and makes closed(c) true; closing twice is harmless.         *)
(***************************************************************************)
EXTENDS Integers, Sequences, FiniteSets, TLC

\* ------------------------------------------------------------------ bounds
\* longest upstream sequence
MaxLen == 4
\* largest sizePower handed to CMap (the window holds 2^sizePower slots)
MaxPower == 1
\* Combinations: sequences of up to MaxItems distinct elements 1..MaxItems,
\* sizes 0..MaxNumber
MaxItems == 3
MaxNumber == 3
\* Product: up to MaxFactors factor sequences
MaxFactors == 4
\* SlidingWindow on its own: RemoveFirst is called while base < MaxBase
MaxBase == 4

\* the elements: the package transports them without looking at them, and
\* two different ones are enough to tell any two positions apart
Elems == {1, 2}
Inputs == UNION {[1..n -> Elems] : n \in 0..MaxLen}

\* the nil interface value
Nil == 0

VARIABLES
    mode,          \* the operation consumed: "map", "do", "filter" or "flatmap"
    S,             \* the upstream sequence s
    sizePower,     \* sizePowerOpt[0]
    target,        \* Find's predicate is (el = target)
    pass,          \* CFilter's predicate is (el \in pass)
    fails,         \* the elements on which the user function panics
    growth,        \* how append sizes a new backing array: "double", what the
                   \* runtime does, or "exact", the least the language allows
    sent,          \* number of elements the upstream producer has sent on input
    inputChan,     \* "open" or "closed": the upstream channel
    window,        \* the coordinator's SlidingWindow
    inputCount,    \* CMap's inputCount
    pendingInput,  \* CMap's pendingInput
    inputClosed,   \* CMap's inputClosed
    cpc,           \* the coordinator: "loop" or "exited"
    replyChan,     \* "open" or "closed": replyChannel
    workers,       \* index -> [st, value, result], one goroutine per ingested element
    outChan,       \* "open" or "closed": CMap's output channel
    kpc,           \* the consumer of CMap's output: "recv", "found", "fwd", "done"
    out,           \* the values the consumer received from CMap's output, in order
    found,         \* what Find returned
    fwd,           \* CFlatMap: the rest of the sub-sequence being forwarded to c
    cChan,         \* "open" or "closed": the channel c of CFilter / CFlatMap
    cOut,          \* the values received from c, in order
    applied,       \* the elements on which the user function (CDo's f, Find's
                   \* predicate) has returned, in order of return
    proc,          \* the process: "running" or "aborted"
    run,           \* which invocation of the concurrent sequence is being consumed
    prevOut,       \* what the previous invocation delivered
    heap,          \* the backing arrays of the slices of the sequential sequences
    reg,           \* the values a sequential computation holds (slices, results)
    spc            \* the position of the sequential computation

cfgVars == <<mode, S, sizePower, target, pass, fails, growth>>
runVars == <<proc, run, prevOut>>
seqVars == <<heap, reg, spc>>
pipeVars == <<sent, inputChan, window, inputCount, pendingInput, inputClosed,
              cpc, replyChan, workers, outChan, kpc, out, found, fwd, cChan,
              cOut, applied>>

vars == <<cfgVars, runVars, seqVars, sent, inputChan, window, inputCount,
          pendingInput, inputClosed, cpc, replyChan, workers, outChan, kpc,
          out, found, fwd, cChan, cOut, applied>>

\* ------------------------------------------------------- the user functions
\* the function mapped by CMap (any pure function; this one is not the identity)
F(v) == v + 10
\* the predicate of CFilter
P(v) == v \in pass
\* the function of CFlatMap: a materialized sub-sequence of v elements
G(v) == [i \in 1..v |-> 10 * v + i]

RECURSIVE Pow2(_)
Pow2(n) == IF n = 0 THEN 1 ELSE 2 * Pow2(n - 1)

\* ---------------------------------------------------------- SlidingWindow
swEntry(value, present) == [value |-> value, present |-> present]

NewSlidingWindow(sz) ==
    [start |-> 0, base |-> 0, count |-> 0, mask |-> Pow2(sz) - 1,
     values |-> [i \in 0..(Pow2(sz) - 1) |-> swEntry(Nil, FALSE)]]

Capacity(r) == Cardinality(DOMAIN r.values)
Max(r) == r.base + Capacity(r) - 1
Count(r) == r.count
\* (index + len(values)) & mask, for the non-negative operands the code passes
normalize(r, index) == (index + Capacity(r)) % (r.mask + 1)
IsEmpty(r) == r.count = 0
\* IsFull off by one: true with one slot still free
MutIsFull(r) == r.count >= Capacity(r) - 1
IsFull(r) == r.count = Capacity(r)
\* <<value, present>>
GetFirst(r) == <<r.values[r.start].value, r.values[r.start].present>>

\* RemoveFirst that moves on past an empty first slot
MutRemoveFirstAdvance(r) ==
    IF ~r.values[r.start].present
    THEN [r EXCEPT !.start = normalize(r, r.start + 1), !.base = r.base + 1]
    ELSE [r EXCEPT !.values[r.start] = swEntry(Nil, FALSE),
                   !.count = r.count - 1,
                   !.start = normalize(r, r.start + 1),
                   !.base = r.base + 1]
\* RemoveFirst that forgets r.count--
MutRemoveFirstWindow(r) ==
    IF ~r.values[r.start].present THEN r
    ELSE [r EXCEPT !.values[r.start] = swEntry(Nil, FALSE),
                   !.start = normalize(r, r.start + 1),
                   !.base = r.base + 1]
\* the window after RemoveFirst
RemoveFirstWindow(r) ==
    IF ~r.values[r.start].present THEN r
    ELSE [r EXCEPT !.values[r.start] = swEntry(Nil, FALSE),
                   !.count = r.count - 1,
                   !.start = normalize(r, r.start + 1),
                   !.base = r.base + 1]
\* <<value, removed>>
RemoveFirstResult(r) ==
    IF ~r.values[r.start].present THEN <<Nil, FALSE>>
    ELSE <<r.values[r.start].value, TRUE>>

\* Get without the ring offset: the slot is normalize(index - base)
MutGet(r, index) ==
    LET rel == index - r.base IN
    IF rel < 0 \/ rel >= Capacity(r) THEN <<Nil, FALSE>>
    ELSE LET slot == normalize(r, rel) IN
         <<r.values[slot].value, r.values[slot].present>>

Get(r, index) ==
    LET rel == index - r.base IN
    IF rel < 0 \/ rel >= Capacity(r) THEN <<Nil, FALSE>>
    ELSE LET slot == normalize(r, rel + r.start) IN
         <<r.values[slot].value, r.values[slot].present>>

\* Set without the ring offset: the slot is normalize(index - base)
MutSetWindow(r, index, value) ==
    LET rel == index - r.base IN
    IF rel < 0 \/ rel >= Capacity(r) THEN r
    ELSE LET slot == normalize(r, rel) IN
         [r EXCEPT !.values[slot] = swEntry(value, TRUE),
                   !.count = IF r.values[slot].present THEN r.count
                             ELSE r.count + 1]

\* Set with the upper bound off by one: index - base > Capacity() is rejected
MutSetBound(r, index, value) ==
    LET rel == index - r.base IN
    IF rel < 0 \/ rel > Capacity(r) THEN r
    ELSE LET slot == normalize(r, rel + r.start) IN
         [r EXCEPT !.values[slot] = swEntry(value, TRUE),
                   !.count = IF r.values[slot].present THEN r.count
                             ELSE r.count + 1]

\* whether Set(index, value) returns true
SetOk(r, index) ==
    LET rel == index - r.base IN ~(rel < 0 \/ rel >= Capacity(r))
\* the window after Set(index, value)
SetWindow(r, index, value) ==
    LET rel == index - r.base IN
    IF rel < 0 \/ rel >= Capacity(r) THEN r
    ELSE LET slot == normalize(r, rel + r.start) IN
         [r EXCEPT !.values[slot] = swEntry(value, TRUE),
                   !.count = IF r.values[slot].present THEN r.count
                             ELSE r.count + 1]

\* ------------------------------------------------------------ CMap state
\* size := 1 << sizePower
size == Pow2(sizePower)

Idle == [st |-> "idle", index |-> 0, value |-> Nil, result |-> Nil]

\* nothing ingested, no worker spawned, nothing read
InitChans ==
    /\ sent = 0
    /\ inputChan = "open"
    /\ window = NewSlidingWindow(sizePower)
    /\ inputCount = 0
    /\ pendingInput = 0
    /\ inputClosed = FALSE
    /\ cpc = "loop"
    /\ replyChan = "open"
    /\ workers = [i \in 0..(Len(S) - 1) |-> Idle]
    /\ outChan = "open"
    /\ out = <<>>
    /\ found = Nil
    /\ fwd = <<>>
    /\ cChan = "open"
    /\ cOut = <<>>
    /\ applied = <<>>
    /\ proc = "running"
    /\ run = 1
    /\ prevOut = <<>>

\* the consumer is about to receive for the first time
InitPipe == InitChans /\ kpc = "recv"

InitCommon ==
    /\ S \in Inputs
    /\ sizePower \in 0..MaxPower
    /\ growth = "double"
    /\ InitPipe
    /\ heap = <<>>
    /\ reg = <<>>
    /\ spc = "idle"

\* s.CMap(F, sizePower) consumed by Find(el = target); target = Nil is Do
InitMap ==
    /\ mode = "map"
    /\ target \in {Nil} \cup {F(e) : e \in Elems}
    /\ pass = {}
    /\ fails = {}
    /\ InitCommon

\* s.CDo(g, sizePower), g recording the element it was applied to
InitDo ==
    /\ mode = "do"
    /\ target = Nil
    /\ pass = {}
    /\ fails = {}
    /\ InitCommon

\* s.CFilter(P, sizePower), its channel c read to the end
InitFilter ==
    /\ mode = "filter"
    /\ target = Nil
    /\ pass \in SUBSET Elems
    /\ fails = {}
    /\ InitCommon

\* s.CFlatMap(G, sizePower), its channel c read to the end
InitFlatMap ==
    /\ mode = "flatmap"
    /\ target = Nil
    /\ pass = {}
    /\ fails = {}
    /\ InitCommon

\* s.CMap(F, sizePower) read to the end, F panicking on the elements of fails
InitFail ==
    /\ mode = "map"
    /\ target = Nil
    /\ pass = {}
    /\ fails \in (SUBSET Elems) \ {{}}
    /\ InitCommon

\* Find(el = target) on S: mode "find" on s.Concurrent(), mode "sfind" on
\* the materialized s itself; target = Nil is Do (the predicate never holds)
InitFind ==
    /\ mode \in {"find", "sfind"}
    /\ target \in {Nil} \cup Elems
    /\ pass = {}
    /\ fails = {}
    /\ InitCommon

\* the value s.Concurrent().CMap(F, sizePower), read to the end by Do, and
\* then read to the end once more
InitTwice ==
    /\ mode = "map"
    /\ target = Nil
    /\ pass = {}
    /\ fails = {}
    /\ InitCommon

\* -------------------------------------------------- the upstream producer
\* Gen's goroutine of s.Concurrent(): after Output has sent every element,
\* the deferred close(c) runs
ProducerClose ==
    /\ sent = Len(S)
    /\ inputChan = "open"
    /\ inputChan' = "closed"
    /\ UNCHANGED <<cfgVars, runVars, seqVars, sent, window, inputCount,
                   pendingInput, inputClosed, cpc, replyChan, workers, outChan,
                   kpc, out, found, fwd, cChan, cOut, applied>>

\* ------------------------------------------------------- the coordinator
\* the loop condition without pendingInput > 0
MutLoopCond == ~inputClosed \/ Count(window) > 0
\* for !inputClosed || pendingInput > 0 || window.Count() > 0
LoopCond == ~inputClosed \/ pendingInput > 0 \/ Count(window) > 0
\* emitting whether or not the first slot is filled: oc is never nil
MutEmitEnabled == TRUE
\* the ingest gate without the bound on pendingInput
MutIngestGate == ~inputClosed
\* if !hasFirst {oc = nil}
EmitEnabled == GetFirst(window)[2]
\* the ingest gate off by one: pendingInput > size
MutIngestEnabled == ~(inputClosed \/ pendingInput > size)
\* if inputClosed || pendingInput >= size {ic = nil}
IngestEnabled == ~(inputClosed \/ pendingInput >= size)
\* the collect gate left out: rc is never nil
MutCollectEnabled == TRUE
\* if window.Count() >= size {rc = nil}
CollectEnabled == ~(Count(window) >= size)

\* what the consumer of CMap's output does with a received element
\*   map:        Find's loop body, f(el) is (el = target)
\*   do, filter: CDo's loop drops the element
\*   flatmap:    Do's f is sub.Output(c)
Receive(el) ==
    /\ out' = Append(out, el)
    /\ kpc' = IF mode = "map" /\ el = target THEN "found"
              ELSE IF mode = "flatmap" /\ Len(el) > 0 THEN "fwd"
              ELSE "recv"
    /\ found' = IF mode = "map" /\ el = target THEN el ELSE found
    /\ fwd' = IF mode = "flatmap" THEN el ELSE fwd

\* case oc <- first: window.RemoveFirst(), the consumer receiving
Emit ==
    /\ cpc = "loop" /\ LoopCond
    /\ EmitEnabled
    /\ outChan = "open" /\ kpc = "recv"
    /\ Receive(GetFirst(window)[1])
    /\ window' = RemoveFirstWindow(window)
    /\ UNCHANGED <<cfgVars, runVars, seqVars, sent, inputChan, inputCount,
                   pendingInput, inputClosed, cpc, replyChan, workers, outChan,
                   cChan, cOut, applied>>

\* case oc <- first on a closed output channel: the send does not block and
\* the value is dropped (the runtime gives up only after some hundreds of
\* such sends, more than an upstream of MaxLen elements can cause)
EmitClosed ==
    /\ cpc = "loop" /\ LoopCond
    /\ EmitEnabled
    /\ outChan = "closed"
    /\ window' = RemoveFirstWindow(window)
    /\ UNCHANGED <<cfgVars, runVars, seqVars, sent, inputChan, inputCount,
                   pendingInput, inputClosed, cpc, replyChan, workers, outChan,
                   kpc, out, found, fwd, cChan, cOut, applied>>

\* case inputElement := <- ic, not closed: spawn the worker for inputCount
Ingest ==
    /\ cpc = "loop" /\ LoopCond
    /\ IngestEnabled
    /\ inputChan = "open" /\ sent < Len(S)
    /\ workers' = [workers EXCEPT ![inputCount] =
                     [st |-> "running", index |-> inputCount,
                      value |-> S[sent + 1], result |-> Nil]]
    /\ sent' = sent + 1
    /\ inputCount' = inputCount + 1
    /\ pendingInput' = pendingInput + 1
    /\ UNCHANGED <<cfgVars, runVars, seqVars, inputChan, window, inputClosed,
                   cpc, replyChan, outChan, kpc, out, found, fwd, cChan, cOut,
                   applied>>

\* case inputElement := <- ic with closed(ic)
IngestEOF ==
    /\ cpc = "loop" /\ LoopCond
    /\ IngestEnabled
    /\ inputChan = "closed"
    /\ inputClosed' = TRUE
    /\ UNCHANGED <<cfgVars, runVars, seqVars, sent, inputChan, window,
                   inputCount, pendingInput, cpc, replyChan, workers, outChan,
                   kpc, out, found, fwd, cChan, cOut, applied>>

\* case replyElement := <- rc: window.Set(index, result); pendingInput--
\* (the value Set returns is not looked at)
Collect(i) ==
    /\ cpc = "loop" /\ LoopCond
    /\ CollectEnabled
    /\ replyChan = "open"
    /\ workers[i].st = "replying"
    /\ window' = SetWindow(window, workers[i].index, workers[i].result)
    /\ pendingInput' = pendingInput - 1
    /\ workers' = [workers EXCEPT ![i].st = "done"]
    /\ UNCHANGED <<cfgVars, runVars, seqVars, sent, inputChan, inputCount,
                   inputClosed, cpc, replyChan, outChan, kpc, out, found, fwd,
                   cChan, cOut, applied>>

\* the loop condition is false: the deferred close(replyChannel) runs, the
\* closure returns and Gen's deferred close(output) runs
CoordExit ==
    /\ cpc = "loop" /\ ~LoopCond
    /\ cpc' = "exited"
    /\ replyChan' = "closed"
    /\ outChan' = "closed"
    /\ UNCHANGED <<cfgVars, runVars, seqVars, sent, inputChan, window,
                   inputCount, pendingInput, inputClosed, workers, kpc, out,
                   found, fwd, cChan, cOut, applied>>

\* ------------------------------------------------------------ the workers
\* the state of worker i once f(value) has returned
\*   map:     f is F
\*   do:      f is func(el){g(el); return nil}
\*   filter:  g is ifFunc(filter, c <- el): the worker next sends el on c
\*   flatmap: f is func(e){return G(e)}
\* ifFunc without its condition: op(el) runs for every element
MutReturned(w) ==
    [w EXCEPT !.st = IF mode = "filter" THEN "sending" ELSE "replying",
              !.result = IF mode = "map" THEN F(w.value)
                         ELSE IF mode = "flatmap" THEN G(w.value)
                         ELSE Nil]
Returned(w) ==
    [w EXCEPT !.st = IF mode = "filter" /\ P(w.value) THEN "sending"
                     ELSE "replying",
              !.result = IF mode = "map" THEN F(w.value)
                         ELSE IF mode = "flatmap" THEN G(w.value)
                         ELSE Nil]

\* go func(index, value){replyChannel <- reply{index, f(value)}}: f returns
\* (for CFilter: the predicate returns) and the worker goes on to its send
WorkerReturn(i) ==
    /\ workers[i].st = "running"
    /\ workers[i].value \notin fails
    /\ workers' = [workers EXCEPT ![i] = Returned(workers[i])]
    /\ applied' = IF mode = "do" THEN Append(applied, workers[i].value)
                  ELSE applied
    /\ UNCHANGED <<cfgVars, runVars, seqVars, sent, inputChan, window,
                   inputCount, pendingInput, inputClosed, cpc, replyChan,
                   outChan, kpc, out, found, fwd, cChan, cOut>>

\* go func(index, value){replyChannel <- reply{index, f(value)}}: f(value)
\* panics. Nothing in the package recovers, the worker has no deferred call
\* that would reply: the panic unwinds the goroutine and the runtime ends
\* the process, with every other goroutine where it stands.
WorkerPanic(i) ==
    /\ proc = "running"
    /\ workers[i].st = "running"
    /\ workers[i].value \in fails
    /\ proc' = "aborted"
    /\ UNCHANGED <<cfgVars, run, prevOut, seqVars, pipeVars>>

\* CFilter's worker inside g: filter(el) was true, c <- el meets the reader
\* of c; g and f return and the worker goes on to its reply
WorkerSend(i) ==
    /\ workers[i].st = "sending"
    /\ cChan = "open"
    /\ cOut' = Append(cOut, workers[i].value)
    /\ workers' = [workers EXCEPT ![i].st = "replying"]
    /\ UNCHANGED <<cfgVars, runVars, seqVars, sent, inputChan, window,
                   inputCount, pendingInput, inputClosed, cpc, replyChan,
                   outChan, kpc, out, found, fwd, cChan, applied>>

\* ----------------------------------------------------------- the consumer
\* CFlatMap: sub.(Sequence).Output(c) sends the next element of sub on c
Forward ==
    /\ kpc = "fwd"
    /\ cChan = "open"
    /\ cOut' = Append(cOut, Head(fwd))
    /\ fwd' = Tail(fwd)
    /\ kpc' = IF Tail(fwd) = <<>> THEN "recv" ELSE "fwd"
    /\ UNCHANGED <<cfgVars, runVars, seqVars, sent, inputChan, window,
                   inputCount, pendingInput, inputClosed, cpc, replyChan,
                   workers, outChan, out, found, cChan, applied>>

\* ConcurrentSeq.Find: the receive returns because the channel is closed;
\* Find returns nil (its deferred close(c) closes a closed channel)
ConsumerEOF ==
    /\ kpc = "recv"
    /\ outChan = "closed"
    /\ kpc' = "done"
    /\ cChan' = IF mode \in {"filter", "flatmap"} THEN "closed" ELSE cChan
    /\ UNCHANGED <<cfgVars, runVars, seqVars, sent, inputChan, window,
                   inputCount, pendingInput, inputClosed, cpc, replyChan,
                   workers, outChan, out, found, fwd, cOut, applied>>

\* ConcurrentSeq.Find: f(el) was true; return el, the deferred close(c) runs
ConsumerClose ==
    /\ kpc = "found"
    /\ kpc' = "done"
    /\ outChan' = "closed"
    /\ UNCHANGED <<cfgVars, runVars, seqVars, sent, inputChan, window,
                   inputCount, pendingInput, inputClosed, cpc, replyChan,
                   workers, out, found, fwd, cChan, cOut, applied>>

NextMap ==
    \/ ProducerClose
    \/ Ingest
    \/ IngestEOF
    \/ \E i \in DOMAIN workers : WorkerReturn(i)
    \/ \E i \in DOMAIN workers : Collect(i)
    \/ Emit
    \/ EmitClosed
    \/ CoordExit
    \/ ConsumerEOF
    \/ ConsumerClose

SpecMap == InitMap /\ [][NextMap]_vars

NextDo ==
    \/ ProducerClose
    \/ Ingest
    \/ IngestEOF
    \/ \E i \in DOMAIN workers : WorkerReturn(i)
    \/ \E i \in DOMAIN workers : Collect(i)
    \/ Emit
    \/ CoordExit
    \/ ConsumerEOF

SpecDo == InitDo /\ [][NextDo]_vars

NextFilter ==
    \/ NextDo
    \/ \E i \in DOMAIN workers : WorkerSend(i)

SpecFilter == InitFilter /\ [][NextFilter]_vars

NextFlatMap ==
    \/ NextDo
    \/ Forward

SpecFlatMap == InitFlatMap /\ [][NextFlatMap]_vars

\* ------------------------------------- CMap with a pendingOutput counter
\* The CMap of the package's function-style version keeps a counter
\* pendingOutput (reg.pendingOutput) besides the window: incremented by the
\* collect case, decremented by the emit case, used in the loop condition
\* and in the collect gate where the other version asks window.Count().
\* Producer, workers and consumer are the same.
InitVariant ==
    /\ mode = "map"
    /\ target \in {Nil} \cup {F(e) : e \in Elems}
    /\ pass = {}
    /\ fails = {}
    /\ S \in Inputs
    /\ sizePower \in 0..MaxPower
    /\ growth = "double"
    /\ InitPipe
    /\ heap = <<>>
    /\ reg = [pendingOutput |-> 0]
    /\ spc = "idle"

\* for !inputClosed || pendingInput > 0 || pendingOutput > 0
VLoopCond == ~inputClosed \/ pendingInput > 0 \/ reg.pendingOutput > 0
\* if pendingOutput >= size {rc = nil}
VCollectEnabled == ~(reg.pendingOutput >= size)

\* case oc <- first: window.RemoveFirst(); pendingOutput--
VEmit ==
    /\ cpc = "loop" /\ VLoopCond
    /\ EmitEnabled
    /\ outChan = "open" /\ kpc = "recv"
    /\ Receive(GetFirst(window)[1])
    /\ window' = RemoveFirstWindow(window)
    /\ reg' = [reg EXCEPT !.pendingOutput = @ - 1]
    /\ UNCHANGED <<cfgVars, runVars, heap, spc, sent, inputChan, inputCount,
                   pendingInput, inputClosed, cpc, replyChan, workers, outChan,
                   cChan, cOut, applied>>

\* case oc <- first on the output channel Find has closed
VEmitClosed ==
    /\ cpc = "loop" /\ VLoopCond
    /\ EmitEnabled
    /\ outChan = "closed"
    /\ window' = RemoveFirstWindow(window)
    /\ reg' = [reg EXCEPT !.pendingOutput = @ - 1]
    /\ UNCHANGED <<cfgVars, runVars, heap, spc, sent, inputChan, inputCount,
                   pendingInput, inputClosed, cpc, replyChan, workers, outChan,
                   kpc, out, found, fwd, cChan, cOut, applied>>

\* case inputElement := <- ic, not closed
VIngest ==
    /\ cpc = "loop" /\ VLoopCond
    /\ IngestEnabled
    /\ inputChan = "open" /\ sent < Len(S)
    /\ workers' = [workers EXCEPT ![inputCount] =
                     [st |-> "running", index |-> inputCount,
                      value |-> S[sent + 1], result |-> Nil]]
    /\ sent' = sent + 1
    /\ inputCount' = inputCount + 1
    /\ pendingInput' = pendingInput + 1
    /\ UNCHANGED <<cfgVars, runVars, seqVars, inputChan, window, inputClosed,
                   cpc, replyChan, outChan, kpc, out, found, fwd, cChan, cOut,
                   applied>>

\* case inputElement := <- ic with closed(ic)
VIngestEOF ==
    /\ cpc = "loop" /\ VLoopCond
    /\ IngestEnabled
    /\ inputChan = "closed"
    /\ inputClosed' = TRUE
    /\ UNCHANGED <<cfgVars, runVars, seqVars, sent, inputChan, window,
                   inputCount, pendingInput, cpc, replyChan, workers, outChan,
                   kpc, out, found, fwd, cChan, cOut, applied>>

\* case replyElement := <- rc: window.Set(index, result); pendingInput--;
\* pendingOutput++
VCollect(i) ==
    /\ cpc = "loop" /\ VLoopCond
    /\ VCollectEnabled
    /\ replyChan = "open"
    /\ workers[i].st = "replying"
    /\ window' = SetWindow(window, workers[i].index, workers[i].result)
    /\ pendingInput' = pendingInput - 1
    /\ reg' = [reg EXCEPT !.pendingOutput = @ + 1]
    /\ workers' = [workers EXCEPT ![i].st = "done"]
    /\ UNCHANGED <<cfgVars, runVars, heap, spc, sent, inputChan, inputCount,
                   inputClosed, cpc, replyChan, outChan, kpc, out, found, fwd,
                   cChan, cOut, applied>>

\* the loop condition is false
VCoordExit ==
    /\ cpc = "loop" /\ ~VLoopCond
    /\ cpc' = "exited"
    /\ replyChan' = "closed"
    /\ outChan' = "closed"
    /\ UNCHANGED <<cfgVars, runVars, seqVars, sent, inputChan, window,
                   inputCount, pendingInput, inputClosed, workers, kpc, out,
                   found, fwd, cChan, cOut, applied>>

NextVariant ==
    \/ ProducerClose
    \/ VIngest
    \/ VIngestEOF
    \/ \E i \in DOMAIN workers : WorkerReturn(i)
    \/ \E i \in DOMAIN workers : VCollect(i)
    \/ VEmit
    \/ VEmitClosed
    \/ VCoordExit
    \/ ConsumerEOF
    \/ ConsumerClose

SpecVariant == InitVariant /\ [][NextVariant]_vars

\* ----------------------------------------------------------------- Find
\* ConcurrentSeq.Find: defer close(c), run when Find returns
MutFindDeferredClose(ch) == ch
FindDeferredClose(ch) == "closed"

\* SMap's closure under Do: slice = append(slice, f(el)), f the identity of
\* Sequential()
MutCollected(slice, el) == <<el>> \o slice
Collected(slice, el) == Append(slice, el)

\* ConcurrentSeq.Find: el := <- c meets the producer's c <- el (Output on
\* Gen's goroutine), closed(c) is false, f(el) is applied
FindRecv ==
    /\ mode \in {"find", "rest"} /\ kpc = "recv"
    /\ inputChan = "open" /\ sent < Len(S)
    /\ sent' = sent + 1
    /\ out' = Collected(out, S[sent + 1])
    /\ applied' = Append(applied, S[sent + 1])
    /\ kpc' = IF S[sent + 1] = target THEN "found" ELSE "recv"
    /\ found' = IF S[sent + 1] = target THEN S[sent + 1] ELSE found
    /\ UNCHANGED <<cfgVars, runVars, seqVars, inputChan, window, inputCount,
                   pendingInput, inputClosed, cpc, replyChan, workers, outChan,
                   fwd, cChan, cOut>>

\* closed(c) after a receive on c: true once the receive found c closed
MutClosed(ch) == TRUE
Closed(ch) == ch = "closed"

\* ConcurrentSeq.Find: the receive returns with closed(c) true; return nil
FindEOF ==
    /\ mode \in {"find", "fold", "firstn", "rest"} /\ kpc = "recv"
    /\ Closed(inputChan)
    /\ kpc' = "done"
    /\ inputChan' = FindDeferredClose(inputChan)
    /\ UNCHANGED <<cfgVars, runVars, seqVars, sent, window, inputCount,
                   pendingInput, inputClosed, cpc, replyChan, workers, outChan,
                   out, found, fwd, cChan, cOut, applied>>

\* ConcurrentSeq.Find: f(el) was true; return el
FindClose ==
    /\ mode \in {"find", "firstn"} /\ kpc = "found"
    /\ kpc' = "done"
    /\ inputChan' = FindDeferredClose(inputChan)
    /\ UNCHANGED <<cfgVars, runVars, seqVars, sent, window, inputCount,
                   pendingInput, inputClosed, cpc, replyChan, workers, outChan,
                   out, found, fwd, cChan, cOut, applied>>

\* the producer's c <- el on the channel Find has closed: the send does not
\* block, the element is dropped
ProducerSendClosed ==
    /\ mode \in {"find", "firstn"}
    /\ inputChan = "closed" /\ sent < Len(S)
    /\ sent' = sent + 1
    /\ UNCHANGED <<cfgVars, runVars, seqVars, inputChan, window, inputCount,
                   pendingInput, inputClosed, cpc, replyChan, workers, outChan,
                   kpc, out, found, fwd, cChan, cOut, applied>>

\* SequentialSeq.Find from position i on, ap being the elements f has been
\* applied to so far:  for ; i < len(*s); i++ {if f((*s)[i]) {return (*s)[i]}}
RECURSIVE SeqFind(_, _, _)
SeqFind(s, i, ap) ==
    IF ~(i <= Len(s)) THEN [result |-> Nil, applied |-> ap]
    ELSE IF s[i] = target THEN [result |-> s[i], applied |-> Append(ap, s[i])]
    ELSE SeqFind(s, i + 1, Append(ap, s[i]))

\* s.Find(el = target) on the materialized s
SFind ==
    /\ mode = "sfind" /\ spc = "idle"
    /\ spc' = "done"
    /\ reg' = SeqFind(S, 1, <<>>)
    /\ UNCHANGED <<cfgVars, runVars, heap, pipeVars>>

NextFind ==
    \/ ProducerClose
    \/ ProducerSendClosed
    \/ FindRecv
    \/ FindEOF
    \/ FindClose
    \/ SFind

SpecFind == InitFind /\ [][NextFind]_vars

\* ----------------------------------------------------------------- Fold
\* the operator folded: concatenation, associative and not commutative; the
\* accumulator is a tuple, an element stands for the one-element tuple
op(acc, el) == acc \o <<el>>

\* the initial values folded from
Zs == {<<>>, <<9>>}

\* Fold's closure under Do: init = f(init, el)
MutFoldClosure(init, el) == op(<<>>, el)
FoldClosure(init, el) == op(init, el)

\* s.Fold(z, op): mode "fold" on s.Concurrent(), mode "sfold" on the
\* materialized s; reg.acc is the variable init captured by the closure
InitFold ==
    /\ mode \in {"fold", "sfold"}
    /\ S \in Inputs
    /\ sizePower = 0
    /\ target = Nil
    /\ pass = {}
    /\ fails = {}
    /\ growth = "double"
    /\ InitPipe
    /\ heap = <<>>
    /\ \E z \in Zs : reg = [z |-> z, acc |-> z]
    /\ spc = "idle"

\* ConcurrentSeq.Find under Do under Fold: el := <- c meets the producer's
\* send, the closure is applied and returns false
FoldRecv ==
    /\ mode = "fold" /\ kpc = "recv"
    /\ inputChan = "open" /\ sent < Len(S)
    /\ sent' = sent + 1
    /\ reg' = [reg EXCEPT !.acc = FoldClosure(reg.acc, S[sent + 1])]
    /\ UNCHANGED <<cfgVars, runVars, heap, spc, inputChan, window, inputCount,
                   pendingInput, inputClosed, cpc, replyChan, workers, outChan,
                   kpc, out, found, fwd, cChan, cOut, applied>>

\* SequentialSeq.Find under Do under Fold, from position i on:
\* for ; i < len(*s); i++ {if f((*s)[i]) {...}}, f never true
RECURSIVE SeqFold(_, _, _)
SeqFold(s, i, acc) ==
    IF ~(i <= Len(s)) THEN acc
    ELSE SeqFold(s, i + 1, FoldClosure(acc, s[i]))

\* s.Fold(z, op) on the materialized s
SFold ==
    /\ mode = "sfold" /\ spc = "idle"
    /\ spc' = "done"
    /\ reg' = [reg EXCEPT !.acc = SeqFold(S, 1, reg.z)]
    /\ UNCHANGED <<cfgVars, runVars, heap, pipeVars>>

NextFold ==
    \/ ProducerClose
    \/ FoldRecv
    \/ FindEOF
    \/ SFold

SpecFold == InitFold /\ [][NextFold]_vars

\* --------------------------------------------------------------- FirstN
\* s.FirstN(n), 0 <= n <= Len(s): mode "firstn" on s.Concurrent(), mode
\* "sfirstn" on the materialized s.  r := make([]interface{}, n); x := 0;
\* reg.i is the index of SequentialSeq.Find's loop
InitFirstN ==
    /\ mode \in {"firstn", "sfirstn"}
    /\ S \in Inputs
    /\ sizePower = 0
    /\ target = Nil
    /\ pass = {}
    /\ fails = {}
    /\ growth = "double"
    /\ InitPipe
    /\ heap = <<>>
    /\ \E n \in 0..Len(S) : reg = [n |-> n, r |-> [k \in 1..n |-> Nil], x |-> 0, i |-> 0]
    /\ spc = "idle"

\* FirstN's closure: r[x] = el; x++; return x == n.  The index expression
\* r[x] is checked against len(r)
InRange(r, x) == 0 <= x /\ x < Len(r)
FirstNClosure(g, el) == [g EXCEPT !.r[g.x + 1] = el, !.x = g.x + 1]

\* ConcurrentSeq.Find under FirstN: el := <- c meets the producer's send and
\* the closure is applied
FirstNRecv ==
    /\ mode = "firstn" /\ kpc = "recv"
    /\ inputChan = "open" /\ sent < Len(S)
    /\ InRange(reg.r, reg.x)
    /\ sent' = sent + 1
    /\ reg' = FirstNClosure(reg, S[sent + 1])
    /\ kpc' = IF reg'.x = reg.n THEN "found" ELSE "recv"
    /\ UNCHANGED <<cfgVars, runVars, heap, spc, inputChan, window, inputCount,
                   pendingInput, inputClosed, cpc, replyChan, workers, outChan,
                   out, found, fwd, cChan, cOut, applied>>

\* the closure's r[x] = el with x out of range: a run-time panic in the
\* goroutine that called FirstN; Find's deferred close(c) runs while the
\* panic unwinds, nothing recovers it and the process ends
FirstNPanic ==
    /\ mode = "firstn" /\ kpc = "recv"
    /\ inputChan = "open" /\ sent < Len(S)
    /\ ~InRange(reg.r, reg.x)
    /\ sent' = sent + 1
    /\ inputChan' = FindDeferredClose(inputChan)
    /\ kpc' = "panicked"
    /\ proc' = "aborted"
    /\ UNCHANGED <<cfgVars, run, prevOut, seqVars, window, inputCount,
                   pendingInput, inputClosed, cpc, replyChan, workers, outChan,
                   out, found, fwd, cChan, cOut, applied>>

\* SequentialSeq.Find under FirstN: one iteration of the loop with
\* i < len(*s), the closure is applied to (*s)[i]
SFirstNStep ==
    /\ mode = "sfirstn" /\ spc = "idle"
    /\ reg.i < Len(S)
    /\ InRange(reg.r, reg.x)
    /\ LET g == FirstNClosure(reg, S[reg.i + 1])
       IN  IF g.x = g.n
           THEN reg' = g /\ spc' = "done"
           ELSE reg' = [g EXCEPT !.i = g.i + 1] /\ spc' = "idle"
    /\ UNCHANGED <<cfgVars, runVars, heap, pipeVars>>

\* the same iteration with x out of range
SFirstNPanic ==
    /\ mode = "sfirstn" /\ spc = "idle"
    /\ reg.i < Len(S)
    /\ ~InRange(reg.r, reg.x)
    /\ spc' = "panicked"
    /\ proc' = "aborted"
    /\ UNCHANGED <<cfgVars, run, prevOut, heap, reg, pipeVars>>

\* SequentialSeq.Find: i < len(*s) is false; return nil
SFirstNEnd ==
    /\ mode = "sfirstn" /\ spc = "idle"
    /\ ~(reg.i < Len(S))
    /\ spc' = "done"
    /\ UNCHANGED <<cfgVars, runVars, heap, reg, pipeVars>>

NextFirstN ==
    \/ proc = "running" /\ ProducerClose
    \/ proc = "running" /\ ProducerSendClosed
    \/ proc = "running" /\ FirstNRecv
    \/ proc = "running" /\ FirstNPanic
    \/ proc = "running" /\ FindEOF
    \/ proc = "running" /\ FindClose
    \/ proc = "running" /\ SFirstNStep
    \/ proc = "running" /\ SFirstNPanic
    \/ proc = "running" /\ SFirstNEnd

SpecFirstN == InitFirstN /\ [][NextFirstN]_vars

\* ------------------------------------------------------ a second invocation
\* the first Do has returned and CMap's goroutine has ended; the sequence
\* value is called again: Gen's closure makes a new channel and starts a new
\* goroutine, CMap's closure calls the upstream again (a new channel and a
\* new producer), makes a new window and a new reply channel
Restart ==
    /\ run = 1
    /\ kpc = "done" /\ cpc = "exited"
    /\ run' = 2
    /\ prevOut' = out
    /\ sent' = 0
    /\ inputChan' = "open"
    /\ window' = NewSlidingWindow(sizePower)
    /\ inputCount' = 0
    /\ pendingInput' = 0
    /\ inputClosed' = FALSE
    /\ cpc' = "loop"
    /\ replyChan' = "open"
    /\ workers' = [i \in DOMAIN workers |-> Idle]
    /\ outChan' = "open"
    /\ kpc' = "recv"
    /\ out' = <<>>
    /\ UNCHANGED <<cfgVars, proc, seqVars, found, fwd, cChan, cOut, applied>>

NextTwice ==
    \/ NextDo
    \/ Restart

SpecTwice == InitTwice /\ [][NextTwice]_vars

NextFail ==
    \/ proc = "running" /\ NextDo
    \/ \E i \in DOMAIN workers : WorkerPanic(i)

SpecFail == InitFail /\ [][NextFail]_vars

\* ------------------------------------------------------------ observations
\* the sequential map of s by F
MapF(s) == [i \in 1..Len(s) |-> F(s[i])]
\* the concatenation G(s[1]) \o ... \o G(s[Len(s)])
RECURSIVE ConcatG(_)
ConcatG(s) == IF s = <<>> THEN <<>> ELSE G(Head(s)) \o ConcatG(Tail(s))
\* the elements of s that satisfy P, in order
RECURSIVE FilterP(_)
FilterP(s) ==
    IF s = <<>> THEN <<>>
    ELSE IF P(Head(s)) THEN <<Head(s)>> \o FilterP(Tail(s))
    ELSE FilterP(Tail(s))
\* number of positions of s that hold e
Occurrences(s, e) == Cardinality({j \in 1..Len(s) : s[j] = e})

\* the position of the first element of s equal to target, Len(s) + 1 if
\* there is none
FirstMatch(s) ==
    IF \E j \in 1..Len(s) : s[j] = target
    THEN CHOOSE j \in 1..Len(s) : s[j] = target /\ \A h \in 1..(j - 1) : s[h] # target
    ELSE Len(s) + 1
\* what Find has to return on s
FindResult(s) == IF FirstMatch(s) <= Len(s) THEN s[FirstMatch(s)] ELSE Nil
\* the elements Find has to apply its predicate to, in order
FindApplied(s) == SubSeq(s, 1, IF FirstMatch(s) <= Len(s) THEN FirstMatch(s) ELSE Len(s))

\* invocations of f (of the predicate, for CFilter) started and not returned
InFlight == Cardinality({i \in DOMAIN workers : workers[i].st \in {"running", "sending"}})
\* workers spawned whose reply has not been collected
Live == Cardinality({i \in DOMAIN workers :
                        workers[i].st \in {"running", "sending", "replying"}})
\* populated slots of the window
Populated == Cardinality({j \in DOMAIN window.values : window.values[j].present})
\* CFilter: the tasks that have sent on its channel c. A worker whose element
\* passes the predicate sends it on c before it replies.
SendersOnC ==
    {i \in DOMAIN workers :
        mode = "filter" /\ P(workers[i].value)
            /\ workers[i].st \in {"replying", "done"}}
\* the consumer reads the output of CMap to the end (Find never matches)
ReadsToEnd == mode = "map" /\ target = Nil

\* ------------------------------------------------ materialized sequences
\* A Sequence over a slice is [conc, arr, off, len, cap]: the slice header
\* (backing array heap[arr], first cell off + 1, length, capacity) and
\* whether the value is the slice itself (*SequentialSeq) or the concurrent
\* sequence s.Concurrent() that outputs it (Gen over Output). The nil slice
\* has arr = 0 and cap = 0. A cell holds an element or Nil when never written.
\* The operations take the heap h and return [h, s], the heap after them and
\* the slice or sequence they return. A loop over a sequence is a recursive
\* operator; each asks for Len(h) first, which has the heap of the previous
\* iteration evaluated before the next one is entered.

\* the elements of s, in order
ElsOf(h, s) == [i \in 1..s.len |-> h[s.arr][s.off + i]]

\* growslice: m := cap; if m == 0 {m = needed} else {do m += m while m < needed}
\* (the m += m/4 branch is for lengths from 1024 on)
RECURSIVE Doubled(_, _)
Doubled(m, needed) == IF m + m >= needed THEN m + m ELSE Doubled(m + m, needed)

growslice(cap, needed) ==
    IF growth = "exact" \/ cap = 0 THEN needed ELSE Doubled(cap, needed)

\* make([]interface{}, 0, cap)
make(h, cap) ==
    [h |-> Append(h, [j \in 1..cap |-> Nil]),
     s |-> [conc |-> FALSE, arr |-> Len(h) + 1, off |-> 0, len |-> 0, cap |-> cap]]

\* the builtin append(sl, vals...): written into sl's backing array behind
\* its last element when the capacity allows, copied to a new array else
AppendSlice(h, sl, vals) ==
    LET needed == sl.len + Len(vals) IN
    IF Len(vals) = 0 THEN [h |-> h, s |-> sl]
    ELSE IF needed <= sl.cap
    THEN [h |-> [h EXCEPT ![sl.arr] =
                    [j \in 1..Len(@) |->
                        IF j > sl.off + sl.len /\ j <= sl.off + needed
                        THEN vals[j - sl.off - sl.len] ELSE @[j]]],
          s |-> [sl EXCEPT !.len = needed]]
    ELSE [h |-> Append(h, [j \in 1..growslice(sl.cap, needed) |->
                              IF j <= sl.len THEN h[sl.arr][sl.off + j]
                              ELSE IF j <= needed THEN vals[j - sl.len]
                              ELSE Nil]),
          s |-> [conc |-> FALSE, arr |-> Len(h) + 1, off |-> 0, len |-> needed,
                 cap |-> growslice(sl.cap, needed)]]

\* slice = append(slice, v) for each v of vals in turn
RECURSIVE AppendEach(_, _, _)
AppendEach(h, sl, vals) ==
    IF Len(h) >= 0 /\ vals = <<>> THEN [h |-> h, s |-> sl]
    ELSE LET r == AppendSlice(h, sl, <<Head(vals)>>)
         IN  AppendEach(r.h, r.s, Tail(vals))

\* From(els...): the variadic slice, nil when there are no arguments
From(h, els) ==
    IF els = <<>>
    THEN [h |-> h, s |-> [conc |-> FALSE, arr |-> 0, off |-> 0, len |-> 0, cap |-> 0]]
    ELSE [h |-> Append(h, els),
          s |-> [conc |-> FALSE, arr |-> Len(h) + 1, off |-> 0, len |-> Len(els),
                 cap |-> Len(els)]]

\* s.Concurrent() of a materialized s
Concurrent(s) == [s EXCEPT !.conc = TRUE]
IsConcurrent(s) == s.conc
\* quickLen(d): the length of a SequentialSeq, d for any other
quickLen(s, d) == IF s.conc THEN d ELSE s.len
\* s.IsEmpty(): Find with a predicate that is true at once
SequenceIsEmpty(s) == s.len = 0
\* s.First()
First(h, s) == h[s.arr][s.off + 1]
\* SequentialSeq.Rest: (*s)[1:]; ConcurrentSeq.Rest: the channel after one
\* receive
Rest(s) == [s EXCEPT !.off = @ + 1, !.len = @ - 1, !.cap = @ - 1]

\* the body of SMap, SFilter and SFlatMap, results being what the closure
\* appends, in order: slice := make(.., 0, s.quickLen(8)); s.Do(append)
Collect8(h, s, results) ==
    LET m == make(h, quickLen(s, 8)) IN AppendEach(m.h, m.s, results)

\* s.SFilter(P)
SFilter(h, s) == Collect8(h, s, FilterP(ElsOf(h, s)))
\* s.SMap(F)
SMap(h, s) == Collect8(h, s, MapF(ElsOf(h, s)))
\* s.ToSlice(): the slice of s.Sequential(), which is s itself or
\* s.SMap(identity)
ToSlice(h, s) == IF s.conc THEN Collect8(h, s, ElsOf(h, s)) ELSE [h |-> h, s |-> s]

\* s.SAppend(s2): slice := s.ToSlice(); slice = append(slice, s2.ToSlice()...)
SAppend(h, s, s2) ==
    LET a == ToSlice(h, s)
        b == ToSlice(a.h, s2)
    IN  AppendSlice(b.h, a.s, ElsOf(b.h, b.s))

\* s.SFlatMap(G): the closure appends every element of G(e), e in order
SFlatMap(h, s) == Collect8(h, s, ConcatG(ElsOf(h, s)))

\* the concurrent operations return Gen(...): a ConcurrentSeq that computes
\* nothing until it is called; gen names the closure and what it captured
MutCAppend(s, s2) == [conc |-> TRUE, gen |-> <<"CAppend", s2, s>>]
CAppend(s, s2) == [conc |-> TRUE, gen |-> <<"CAppend", s, s2>>]
CFilter(s) == [conc |-> TRUE, gen |-> <<"CFilter", s>>]
CMap(s) == [conc |-> TRUE, gen |-> <<"CMap", s>>]
CFlatMap(s) == [conc |-> TRUE, gen |-> <<"CFlatMap", s>>]

\* s1.Append(s2)
SequenceAppend(h, s1, s2) ==
    IF IsConcurrent(s1) THEN [h |-> h, s |-> CAppend(s1, s2)]
    ELSE SAppend(h, s1, s2)
\* Prepend choosing by the realization of its argument
MutSequencePrepend(h, s1, s2) ==
    IF IsConcurrent(s2) THEN [h |-> h, s |-> CAppend(s2, s1)]
    ELSE SAppend(h, s2, s1)
\* s1.Prepend(s2)
SequencePrepend(h, s1, s2) ==
    IF IsConcurrent(s1) THEN [h |-> h, s |-> CAppend(s2, s1)]
    ELSE SAppend(h, s2, s1)
\* s.Filter(P)
SequenceFilter(h, s) ==
    IF IsConcurrent(s) THEN [h |-> h, s |-> CFilter(s)] ELSE SFilter(h, s)
\* s.Map(F)
SequenceMap(h, s) ==
    IF IsConcurrent(s) THEN [h |-> h, s |-> CMap(s)] ELSE SMap(h, s)
\* s.FlatMap(G)
SequenceFlatMap(h, s) ==
    IF IsConcurrent(s) THEN [h |-> h, s |-> CFlatMap(s)] ELSE SFlatMap(h, s)

\* the sequences a and b that get appended
Suffixes == {<<>>, <<7>>, <<8, 9>>}
\* how x is made from From(S...)
Makers == {"From", "SFilter", "SMap", "Rest"}

\* x is made from S; then x.Append(a) and x.Append(b) are computed
InitAppend ==
    /\ mode = "append"
    /\ S \in Inputs
    /\ sizePower = 0
    /\ target = Nil
    /\ pass \in SUBSET Elems
    /\ fails = {}
    /\ growth \in {"double", "exact"}
    /\ InitPipe
    /\ heap = <<>>
    /\ reg \in [maker : Makers, a : Suffixes, b : Suffixes]
    /\ reg.maker = "Rest" => Len(S) >= 1
    /\ spc = "idle"

\* x := From(S...), From(S...).SFilter(P), From(S...).SMap(F) or
\* From(S...).Rest()
MakeX ==
    /\ mode = "append" /\ spc = "idle"
    /\ LET f == From(heap, S)
           r == IF reg.maker = "SFilter" THEN SFilter(f.h, f.s)
                ELSE IF reg.maker = "SMap" THEN SMap(f.h, f.s)
                ELSE IF reg.maker = "Rest" THEN [h |-> f.h, s |-> Rest(f.s)]
                ELSE f
       IN  /\ heap' = r.h
           /\ reg' = [x |-> r.s, xEls |-> ElsOf(r.h, r.s)] @@ reg
    /\ spc' = "x"
    /\ UNCHANGED <<cfgVars, runVars, pipeVars>>

\* r1 := x.Append(From(a...))
AppendA ==
    /\ mode = "append" /\ spc = "x"
    /\ LET f == From(heap, reg.a)
           r == SequenceAppend(f.h, reg.x, f.s)
       IN  /\ heap' = r.h
           /\ reg' = [r1 |-> r.s, r1Els |-> ElsOf(r.h, r.s)] @@ reg
    /\ spc' = "a"
    /\ UNCHANGED <<cfgVars, runVars, pipeVars>>

\* r2 := x.Append(From(b...))
AppendB ==
    /\ mode = "append" /\ spc = "a"
    /\ LET f == From(heap, reg.b)
           r == SequenceAppend(f.h, reg.x, f.s)
       IN  /\ heap' = r.h
           /\ reg' = [r2 |-> r.s] @@ reg
    /\ spc' = "b"
    /\ UNCHANGED <<cfgVars, runVars, pipeVars>>

NextAppend ==
    \/ MakeX
    \/ AppendA
    \/ AppendB

SpecAppend == InitAppend /\ [][NextAppend]_vars

\* a method has returned r
Returns(r) ==
    /\ heap' = r.h
    /\ reg' = [res |-> r.s] @@ reg
    /\ spc' = "done"
    /\ UNCHANGED <<cfgVars, runVars, pipeVars>>

\* ------------------------------------------------ Combinations and Product
\* the elements of a sequence of sequences, each as its elements
Tuples(h, s) == [i \in 1..s.len |-> ElsOf(h, h[s.arr][s.off + i])]

\* From(From()): the sequence holding one empty sequence
FromFromEmpty(h) ==
    LET e == From(h, <<>>) IN From(e.h, <<e.s>>)

\* the closure of Combinations with the elements in the wrong order:
\* el.Append(From(first))
MutPrependFirst(h, first, el) ==
    LET f == From(h, <<first>>) IN SequenceAppend(f.h, el, f.s)
\* the closure of Combinations: el.(Sequence).Prepend(From(s.First()))
PrependFirst(h, first, el) ==
    LET f == From(h, <<first>>) IN SequencePrepend(f.h, el, f.s)

\* SMap's Do with that closure over the elements els, slice being SMap's
\* slice so far
RECURSIVE MapPrependFirst(_, _, _, _)
MapPrependFirst(h, first, els, slice) ==
    IF Len(h) >= 0 /\ els = <<>> THEN [h |-> h, s |-> slice]
    ELSE LET r == PrependFirst(h, first, Head(els))
             a == AppendSlice(r.h, slice, <<r.s>>)
         IN  MapPrependFirst(a.h, first, Tail(els), a.s)

\* s.Combinations(number); the receiver of Prepend is evaluated before its
\* argument. Both recursive results are SequentialSeqs (From and SAppend
\* return nothing else), so Map is SMap here.
RECURSIVE Combinations(_, _, _)
Combinations(h, s, number) ==
    IF number = 0 \/ SequenceIsEmpty(s) THEN FromFromEmpty(h)
    ELSE LET without == Combinations(h, Rest(s), number)
             smaller == Combinations(without.h, Rest(s), number - 1)
             m == make(smaller.h, quickLen(smaller.s, 8))
             with == MapPrependFirst(m.h, First(m.h, s),
                                     ElsOf(m.h, smaller.s), m.s)
         IN  SequencePrepend(with.h, without.s, with.s)

\* Product's innermost closure under each.Map (SMap, each being
\* materialized): for every i of items, slice = append(slice,
\* seq.Append(From(i)))
RECURSIVE ExtendBy(_, _, _, _)
ExtendBy(h, seq, items, slice) ==
    IF Len(h) >= 0 /\ items = <<>> THEN [h |-> h, s |-> slice]
    ELSE LET f == From(h, <<Head(items)>>)
             r == SequenceAppend(f.h, seq, f.s)
             a == AppendSlice(r.h, slice, <<r.s>>)
         IN  ExtendBy(a.h, seq, Tail(items), a.s)

\* result.FlatMap(...) (SFlatMap, result being materialized): for every seq
\* of seqs the closure returns each.Map(...), whose elements are appended to
\* SFlatMap's slice
RECURSIVE FlatExtend(_, _, _, _)
FlatExtend(h, seqs, each, slice) ==
    IF Len(h) >= 0 /\ seqs = <<>> THEN [h |-> h, s |-> slice]
    ELSE LET m == make(h, quickLen(each, 8))
             e == ExtendBy(m.h, Head(seqs), ElsOf(m.h, each), m.s)
             a == AppendEach(e.h, slice, ElsOf(e.h, e.s))
         IN  FlatExtend(a.h, Tail(seqs), each, a.s)

\* Fold: init = f(init, each) for every each of factors in turn
RECURSIVE ProductFold(_, _, _)
ProductFold(h, result, factors) ==
    IF Len(h) >= 0 /\ factors = <<>> THEN [h |-> h, s |-> result]
    ELSE LET m == make(h, quickLen(result, 8))
             r == FlatExtend(m.h, ElsOf(m.h, result), Head(factors), m.s)
         IN  ProductFold(r.h, r.s, Tail(factors))

\* sequences.Product(): sequences.Fold(From(From()), ...)
Product(h, sequences) ==
    LET i == FromFromEmpty(h) IN ProductFold(i.h, i.s, ElsOf(i.h, sequences))

\* the sequences of distinct elements Combinations is applied to
Items == 1..MaxItems
DistinctSeqs ==
    {s \in UNION {[1..n -> Items] : n \in 0..MaxItems} :
        \A i, j \in 1..Len(s) : s[i] = s[j] => i = j}
\* the lengths of the factors of a product; factor j holds 10 j + 1, ...
FactorLens == 0..2
Factor(j, len) == [i \in 1..len |-> 10 * j + i]

\* s.Combinations(number) for s over S, or sequences.Product() for factors
\* of the lengths lens; s and sequences are materialized or concurrent
InitTuples ==
    /\ \/ /\ mode = "comb"
          /\ S \in DistinctSeqs
          /\ reg \in [number : 0..MaxNumber, conc : BOOLEAN]
       \/ /\ mode = "product"
          /\ S = <<>>
          /\ reg \in [lens : UNION {[1..m -> FactorLens] : m \in 0..MaxFactors},
                       conc : BOOLEAN]
    /\ sizePower = 0
    /\ target = Nil
    /\ pass = {}
    /\ fails = {}
    /\ growth \in {"double", "exact"}
    /\ InitPipe
    /\ heap = <<>>
    /\ spc = "idle"

\* s := From(S...) or From(S...).Concurrent()
MakeItems ==
    /\ mode = "comb" /\ spc = "idle"
    /\ LET f == From(heap, S)
       IN  /\ heap' = f.h
           /\ reg' = [s |-> IF reg.conc THEN Concurrent(f.s) ELSE f.s] @@ reg
    /\ spc' = "ready"
    /\ UNCHANGED <<cfgVars, runVars, pipeVars>>

\* the factors From(..), .., From(..) made in turn, fs being those made
RECURSIVE MakeFactors(_, _, _)
MakeFactors(h, lens, fs) ==
    IF Len(h) >= 0 /\ Len(fs) = Len(lens) THEN From(h, fs)
    ELSE LET f == From(h, Factor(Len(fs) + 1, lens[Len(fs) + 1]))
         IN  MakeFactors(f.h, lens, Append(fs, f.s))

\* sequences := From(From(..), .., From(..)) or its Concurrent()
MakeSequences ==
    /\ mode = "product" /\ spc = "idle"
    /\ LET f == MakeFactors(heap, reg.lens, <<>>)
       IN  /\ heap' = f.h
           /\ reg' = [s |-> IF reg.conc THEN Concurrent(f.s) ELSE f.s] @@ reg
    /\ spc' = "ready"
    /\ UNCHANGED <<cfgVars, runVars, pipeVars>>

\* res := s.Combinations(number)
Combine ==
    /\ mode = "comb" /\ spc = "ready"
    /\ Returns(Combinations(heap, reg.s, reg.number))

\* res := sequences.Product()
Multiply ==
    /\ mode = "product" /\ spc = "ready"
    /\ Returns(Product(heap, reg.s))

NextTuples ==
    \/ MakeItems
    \/ MakeSequences
    \/ Combine
    \/ Multiply

SpecTuples == InitTuples /\ [][NextTuples]_vars

\* the elements of s at the positions I, in the order of s
Picked(s, I) ==
    [j \in 1..Cardinality(I) |->
        s[CHOOSE i \in I : Cardinality({x \in I : x <= i}) = j]]
\* the sub-collections of s of size 0 to k
SubCollections(s, k) ==
    {Picked(s, I) : I \in {J \in SUBSET (1..Len(s)) : Cardinality(J) <= k}}
\* the tuples over the factors fs, one element of each factor in factor
\* order, in lexicographic order of the element positions
RECURSIVE LexProduct(_)
LexProduct(fs) ==
    IF fs = <<>> THEN << <<>> >>
    ELSE LET p == LexProduct(SubSeq(fs, 1, Len(fs) - 1))
             l == fs[Len(fs)]
         IN  [k \in 1..(Len(p) * Len(l)) |->
                 Append(p[((k - 1) \div Len(l)) + 1], l[((k - 1) % Len(l)) + 1])]
\* the factors made for lens, as their elements
Factors(lens) == [j \in 1..Len(lens) |-> Factor(j, lens[j])]

\* ------------------------------------------------- the dispatching methods
Methods == {"Append", "Prepend", "Filter", "Map", "FlatMap"}

\* one method is called on a receiver over S, materialized or concurrent,
\* with an argument sequence, materialized or concurrent
InitDispatch ==
    /\ mode = "dispatch"
    /\ S \in Inputs
    /\ sizePower = 0
    /\ target = Nil
    /\ pass \in SUBSET Elems
    /\ fails = {}
    /\ growth \in {"double", "exact"}
    /\ InitPipe
    /\ heap = <<>>
    /\ reg \in [method : Methods, recvConc : BOOLEAN, argConc : BOOLEAN,
                 argEls : Suffixes]
    /\ spc = "idle"

\* recv := From(S...) or From(S...).Concurrent(), arg likewise
Operands ==
    /\ mode = "dispatch" /\ spc = "idle"
    /\ LET r == From(heap, S)
           a == From(r.h, reg.argEls)
       IN  /\ heap' = a.h
           /\ reg' = [recv |-> IF reg.recvConc THEN Concurrent(r.s) ELSE r.s,
                       arg |-> IF reg.argConc THEN Concurrent(a.s) ELSE a.s] @@ reg
    /\ spc' = "ready"
    /\ UNCHANGED <<cfgVars, runVars, pipeVars>>

DoAppend ==
    /\ mode = "dispatch" /\ spc = "ready" /\ reg.method = "Append"
    /\ Returns(SequenceAppend(heap, reg.recv, reg.arg))

DoPrepend ==
    /\ mode = "dispatch" /\ spc = "ready" /\ reg.method = "Prepend"
    /\ Returns(SequencePrepend(heap, reg.recv, reg.arg))

DoFilter ==
    /\ mode = "dispatch" /\ spc = "ready" /\ reg.method = "Filter"
    /\ Returns(SequenceFilter(heap, reg.recv))

DoMap ==
    /\ mode = "dispatch" /\ spc = "ready" /\ reg.method = "Map"
    /\ Returns(SequenceMap(heap, reg.recv))

DoFlatMap ==
    /\ mode = "dispatch" /\ spc = "ready" /\ reg.method = "FlatMap"
    /\ Returns(SequenceFlatMap(heap, reg.recv))

\* the result of CAppend is called and read to the end: Gen makes c and
\* starts the goroutine that runs s.Output(c); s2.Output(c); reg.src is the
\* captured sequence whose Output is running, reg.idx how many of its
\* elements Output has sent
IsCAppend(s) == s.conc /\ "gen" \in DOMAIN s /\ s.gen[1] = "CAppend"

AppendCall ==
    /\ mode = "dispatch" /\ spc = "done"
    /\ IsCAppend(reg.res)
    /\ reg' = [src |-> 2, idx |-> 0] @@ reg
    /\ spc' = "output"
    /\ UNCHANGED <<cfgVars, runVars, heap, pipeVars>>

\* Output's c <- el meets the reader's receive
AppendOutput ==
    /\ mode = "dispatch" /\ spc = "output"
    /\ reg.src \in {2, 3}
    /\ reg.idx < reg.res.gen[reg.src].len
    /\ cChan = "open" /\ kpc = "recv"
    /\ out' = Append(out, ElsOf(heap, reg.res.gen[reg.src])[reg.idx + 1])
    /\ reg' = [reg EXCEPT !.idx = @ + 1]
    /\ UNCHANGED <<cfgVars, runVars, heap, spc, sent, inputChan, window,
                   inputCount, pendingInput, inputClosed, cpc, replyChan,
                   workers, outChan, kpc, found, fwd, cChan, cOut, applied>>

\* Output has sent every element of its sequence and returns
AppendOutputReturn ==
    /\ mode = "dispatch" /\ spc = "output"
    /\ reg.src \in {2, 3}
    /\ reg.idx = reg.res.gen[reg.src].len
    /\ reg' = [reg EXCEPT !.src = @ + 1, !.idx = 0]
    /\ UNCHANGED <<cfgVars, runVars, heap, spc, pipeVars>>

\* Gen's deferred close(c) after both Outputs
AppendClose ==
    /\ mode = "dispatch" /\ spc = "output"
    /\ reg.src = 4
    /\ cChan' = "closed"
    /\ spc' = "closed"
    /\ UNCHANGED <<cfgVars, runVars, heap, reg, sent, inputChan, window,
                   inputCount, pendingInput, inputClosed, cpc, replyChan,
                   workers, outChan, kpc, out, found, fwd, cOut, applied>>

\* the reader's receive finds c closed
AppendEOF ==
    /\ mode = "dispatch" /\ kpc = "recv"
    /\ Closed(cChan)
    /\ kpc' = "done"
    /\ UNCHANGED <<cfgVars, runVars, seqVars, sent, inputChan, window,
                   inputCount, pendingInput, inputClosed, cpc, replyChan,
                   workers, outChan, out, found, fwd, cChan, cOut, applied>>

NextDispatch ==
    \/ Operands
    \/ DoAppend
    \/ DoPrepend
    \/ DoFilter
    \/ DoMap
    \/ DoFlatMap
    \/ AppendCall
    \/ AppendOutput
    \/ AppendOutputReturn
    \/ AppendClose
    \/ AppendEOF

SpecDispatch == InitDispatch /\ [][NextDispatch]_vars

\* --------------------------------------------- SlidingWindow on its own
\* A caller makes any sequence of Set, RemoveFirst, Get and GetFirst calls on
\* a new window. reg.stored[i] is the value the caller stored last for the
\* absolute index i by a Set that returned true and has not removed since
\* (Nil if none); reg.ret is what the last call returned.
Indices == 0..(MaxBase + Pow2(MaxPower))

InitWindow ==
    /\ mode = "window"
    /\ S = <<>>
    /\ sizePower \in 0..MaxPower
    /\ target = Nil
    /\ pass = {}
    /\ fails = {}
    /\ growth = "double"
    /\ InitPipe
    /\ heap = <<>>
    /\ reg = [stored |-> [i \in Indices |-> Nil], ret |-> <<>>]
    /\ spc = "idle"

\* ok := window.Set(index, value)
WSet(index, value) ==
    /\ mode = "window"
    /\ window' = SetWindow(window, index, value)
    /\ reg' = [stored |-> IF SetOk(window, index)
                          THEN [reg.stored EXCEPT ![index] = value]
                          ELSE reg.stored,
               ret |-> <<SetOk(window, index)>>]
    /\ UNCHANGED <<cfgVars, runVars, heap, spc, sent, inputChan, inputCount,
                   pendingInput, inputClosed, cpc, replyChan, workers, outChan,
                   kpc, out, found, fwd, cChan, cOut, applied>>

\* value, ok := window.RemoveFirst()
WRemoveFirst ==
    /\ mode = "window"
    /\ window.base < MaxBase
    /\ window' = RemoveFirstWindow(window)
    /\ reg' = [stored |-> IF RemoveFirstResult(window)[2]
                          THEN [reg.stored EXCEPT ![window.base] = Nil]
                          ELSE reg.stored,
               ret |-> RemoveFirstResult(window)]
    /\ UNCHANGED <<cfgVars, runVars, heap, spc, sent, inputChan, inputCount,
                   pendingInput, inputClosed, cpc, replyChan, workers, outChan,
                   kpc, out, found, fwd, cChan, cOut, applied>>

\* value, ok := window.Get(index)
WGet(index) ==
    /\ mode = "window"
    /\ reg' = [reg EXCEPT !.ret = Get(window, index)]
    /\ UNCHANGED <<cfgVars, runVars, heap, spc, pipeVars>>

\* value, ok := window.GetFirst()
WGetFirst ==
    /\ mode = "window"
    /\ reg' = [reg EXCEPT !.ret = GetFirst(window)]
    /\ UNCHANGED <<cfgVars, runVars, heap, spc, pipeVars>>

\* the indices the caller passes: below the window, in it and above it
Passed == {i \in Indices : i + 1 >= window.base /\ i <= Max(window) + 1}

NextWindow ==
    \/ \E index \in Passed, value \in Elems : WSet(index, value)
    \/ WRemoveFirst
    \/ \E index \in Passed : WGet(index)
    \/ WGetFirst

SpecWindow == InitWindow /\ [][NextWindow]_vars

\* the slot of the ring that holds the absolute index
SlotOf(r, index) == normalize(r, index - r.base + r.start)

\* ----------------------------------------------------------------- Rest
\* s.Rest() read to the end by Do, twice: mode "rest" on s.Concurrent(),
\* where each invocation of the closure Rest returns runs c := s(); <- c
\* before the reader gets c (kpc = "skip"), reg.discarded counting what
\* that receive took from the producer; mode "srest" on the materialized s
InitRest ==
    /\ mode \in {"rest", "srest"}
    /\ S \in Inputs
    /\ sizePower = 0
    /\ target = Nil
    /\ pass = {}
    /\ fails = {}
    /\ growth = "double"
    /\ InitChans
    /\ kpc = "skip"
    /\ heap = <<>>
    /\ reg = [discarded |-> 0]
    /\ spc = "idle"

\* ConcurrentSeq.Rest's closure: <- c meets the producer's first send
RestDiscard ==
    /\ mode = "rest" /\ kpc = "skip"
    /\ inputChan = "open" /\ sent < Len(S)
    /\ sent' = sent + 1
    /\ reg' = [reg EXCEPT !.discarded = @ + 1]
    /\ kpc' = "recv"
    /\ UNCHANGED <<cfgVars, runVars, heap, spc, inputChan, window, inputCount,
                   pendingInput, inputClosed, cpc, replyChan, workers, outChan,
                   out, found, fwd, cChan, cOut, applied>>

\* ConcurrentSeq.Rest's closure: <- c finds the channel closed (the upstream
\* is empty) and returns the zero value
RestDiscardClosed ==
    /\ mode = "rest" /\ kpc = "skip"
    /\ inputChan = "closed"
    /\ kpc' = "recv"
    /\ UNCHANGED <<cfgVars, runVars, seqVars, sent, inputChan, window,
                   inputCount, pendingInput, inputClosed, cpc, replyChan,
                   workers, outChan, out, found, fwd, cChan, cOut, applied>>

\* the value s.Rest() is called a second time: c := s() makes a new channel
\* and starts a new producer
RestAgain ==
    /\ mode = "rest" /\ run = 1 /\ kpc = "done"
    /\ run' = 2
    /\ prevOut' = out
    /\ out' = <<>>
    /\ applied' = <<>>
    /\ sent' = 0
    /\ inputChan' = "open"
    /\ reg' = [reg EXCEPT !.discarded = 0]
    /\ kpc' = "skip"
    /\ UNCHANGED <<cfgVars, proc, heap, spc, window, inputCount, pendingInput,
                   inputClosed, cpc, replyChan, workers, outChan, found, fwd,
                   cChan, cOut>>

\* the slice expression x[1:] on a slice of length len: low = 1 and
\* high = len have to satisfy low <= high
SliceFrom1Ok(s) == 1 <= s.len

\* SequentialSeq.Rest: s2 := (*s)[1:]
SRest ==
    /\ mode = "srest" /\ spc = "idle"
    /\ LET f == From(heap, S)
       IN  /\ SliceFrom1Ok(f.s)
           /\ heap' = f.h
           /\ reg' = [res |-> Rest(f.s)]
    /\ spc' = "done"
    /\ UNCHANGED <<cfgVars, runVars, pipeVars>>

\* SequentialSeq.Rest: (*s)[1:] with len(*s) = 0 is out of range, a
\* run-time panic that nothing recovers
SRestPanic ==
    /\ mode = "srest" /\ spc = "idle"
    /\ ~SliceFrom1Ok(From(heap, S).s)
    /\ spc' = "panicked"
    /\ proc' = "aborted"
    /\ UNCHANGED <<cfgVars, run, prevOut, heap, reg, pipeVars>>

NextRest ==
    \/ proc = "running" /\ ProducerClose
    \/ proc = "running" /\ RestDiscard
    \/ proc = "running" /\ RestDiscardClosed
    \/ proc = "running" /\ FindRecv
    \/ proc = "running" /\ FindEOF
    \/ proc = "running" /\ RestAgain
    \/ proc = "running" /\ SRest
    \/ proc = "running" /\ SRestPanic

SpecRest == InitRest /\ [][NextRest]_vars

\* ------------------------------------------------- Filter and Map composed
\* sizePowerOpt defaults to {6} when Map and Filter call CMap and CFilter
DefaultSizePower == 6

\* the predicates p over the values F yields, as the sets they accept
Predicates == SUBSET {F(e) : e \in Elems}
\* p o F as the set of elements it accepts
Composed(p) == {e \in Elems : F(e) \in p}

\* s.Map(F).Filter(p) and then s.Filter(p o F).Map(F), each read to the end.
\* On s.Concurrent() (mode "map" or "filter", run = 1..4) the four stages
\* CMap(F), CFilter(p), CFilter(p o F), CMap(F) run one after the other: the
\* upstream stage offers its next element whenever the downstream stage is
\* ready to receive, so the downstream stage meets exactly the sequence the
\* upstream stage sends, and that sequence is its S. On the materialized s
\* (mode "slaw") the two sides are SMap, SFilter and SFilter, SMap.
InitLaw ==
    /\ mode \in {"map", "slaw"}
    /\ S \in Inputs
    /\ sizePower = DefaultSizePower
    /\ target = Nil
    /\ pass \in Predicates
    /\ fails = {}
    /\ growth = "double"
    /\ InitPipe
    /\ heap = <<>>
    /\ reg = [p |-> pass, s |-> S, left |-> <<>>, right |-> <<>>]
    /\ spc = "idle"

\* the next stage is called on the sequence s with the predicate set q: its
\* closure makes new channels, a new window and a new reply channel
NextStage(m, s, q) ==
    /\ kpc = "done" /\ cpc = "exited"
    /\ mode' = m
    /\ S' = s
    /\ pass' = q
    /\ run' = run + 1
    /\ sent' = 0
    /\ inputChan' = "open"
    /\ window' = NewSlidingWindow(sizePower)
    /\ inputCount' = 0
    /\ pendingInput' = 0
    /\ inputClosed' = FALSE
    /\ cpc' = "loop"
    /\ replyChan' = "open"
    /\ workers' = [i \in 0..(Len(s) - 1) |-> Idle]
    /\ outChan' = "open"
    /\ kpc' = "recv"
    /\ out' = <<>>
    /\ cChan' = "open"
    /\ cOut' = <<>>
    /\ UNCHANGED <<sizePower, target, fails, growth, proc, prevOut, heap, spc,
                   found, fwd, applied>>

\* s.Map(F) has been read to the end by Filter(p)'s CFilter
MapThenFilter ==
    /\ mode = "map" /\ run = 1
    /\ NextStage("filter", out, reg.p)
    /\ UNCHANGED reg

\* the left side is complete; the right side starts with s.Filter(p o F)
LeftDone ==
    /\ mode = "filter" /\ run = 2
    /\ cChan = "closed"
    /\ NextStage("filter", reg.s, Composed(reg.p))
    /\ reg' = [reg EXCEPT !.left = cOut]

\* s.Filter(p o F) has been read to the end by Map(F)'s CMap
FilterThenMap ==
    /\ mode = "filter" /\ run = 3
    /\ cChan = "closed"
    /\ NextStage("map", cOut, reg.p)
    /\ UNCHANGED reg

\* the right side is complete
RightDone ==
    /\ mode = "map" /\ run = 4
    /\ kpc = "done" /\ cpc = "exited"
    /\ spc = "idle"
    /\ reg' = [reg EXCEPT !.right = out]
    /\ spc' = "done"
    /\ UNCHANGED <<cfgVars, runVars, heap, pipeVars>>

\* From(S...).Map(F).Filter(p) on the materialized s
SLeft ==
    /\ mode = "slaw" /\ spc = "idle"
    /\ LET s0 == From(heap, S)
           m == SMap(s0.h, s0.s)
           f == SFilter(m.h, m.s)
       IN  /\ heap' = f.h
           /\ reg' = [reg EXCEPT !.left = ElsOf(f.h, f.s)]
    /\ pass' = Composed(reg.p)
    /\ spc' = "left"
    /\ UNCHANGED <<mode, S, sizePower, target, fails, growth, runVars, pipeVars>>

\* From(S...).Filter(p o F).Map(F) on the materialized s
SRight ==
    /\ mode = "slaw" /\ spc = "left"
    /\ LET s0 == From(heap, S)
           f == SFilter(s0.h, s0.s)
           m == SMap(f.h, f.s)
       IN  /\ heap' = m.h
           /\ reg' = [reg EXCEPT !.right = ElsOf(m.h, m.s)]
    /\ spc' = "done"
    /\ UNCHANGED <<cfgVars, runVars, pipeVars>>

NextLaw ==
    \/ mode \in {"map", "filter"} /\ NextFilter
    \/ MapThenFilter
    \/ LeftDone
    \/ FilterThenMap
    \/ RightDone
    \/ SLeft
    \/ SRight

SpecLaw == InitLaw /\ [][NextLaw]_vars

\* ------------------------------------------------------------------ claims

\* C1: a consumer that reads the output of CMap until it is closed has
\* received exactly F(S_0), ..., F(S_{n-1}) in that order.
C1_Ordering == (ReadsToEnd /\ kpc = "done") => out = MapF(S)

\* C2: no worker result is discarded: whenever the coordinator can collect
\* the reply of a worker, the worker's index is in [base, base + N), so Set
\* returns true for it.
C2_NoReplyRejected ==
    \A i \in DOMAIN workers :
        (cpc = "loop" /\ LoopCond /\ CollectEnabled /\ workers[i].st = "replying")
            => SetOk(window, workers[i].index)

\* C3: with a finite upstream and a consumer that reads to the end, the
\* coordinator is never left in its loop with nothing able to fire any more:
\* until it has exited and closed the output, some step is possible.
C3_CoordinatorExits ==
    ReadsToEnd => ((cpc = "exited" /\ outChan = "closed") \/ ENABLED NextMap)

\* C4: at every instant at most N = 2^k invocations of f are in progress, at
\* most N workers are live and at most N window slots are populated.
C4_Bounded == InFlight <= size /\ Live <= size /\ Populated <= size

C4_Witness ==
    /\ mode = "map" /\ sizePower = 1
    /\ InFlight = size /\ Live = size
    /\ sent < Len(S) /\ inputChan = "open"

\* C5: the values written to the output so far are F(S_0), ..., F(S_{j-1})
\* for some j, and the value the next emit writes is F(S_base).
C5_EmittedPrefix ==
    mode = "map" =>
        /\ \A j \in 1..Len(out) : out[j] = F(S[j])
        /\ EmitEnabled => GetFirst(window)[1] = F(S[window.base + 1])

\* workers completed out of order after a first emission: the front slot is
\* empty while a later one is filled, and the elements differ
C5_Witness ==
    /\ mode = "map" /\ Len(out) >= 1
    /\ ~EmitEnabled /\ Count(window) > 0
    /\ Len(S) >= 3 /\ S[2] # S[3]

\* C6: once Find has short-circuited and closed the output and the
\* coordinator has attempted an emit on it, the coordinator ingests no
\* further upstream element and spawns no further worker.
C6_StopsIngesting ==
    [][(mode = "map" /\ kpc = "done" /\ found # Nil /\ cpc = "loop"
        /\ outChan = "closed" /\ window.base > Len(out))
           => (inputCount' = inputCount /\ sent' = sent)]_vars

\* C7: the channel of CFilter, read to the end, has carried exactly the
\* elements of S that satisfy the predicate, in the order of S.
C7_FilterOrder == (mode = "filter" /\ cChan = "closed") => cOut = FilterP(S)

\* C8: with k = 0 at most one invocation of f is in progress, a consumer
\* that reads to the end has received F(S_0), ..., F(S_{n-1}) in order, and
\* it does get to the end: until then some step is possible.
C8_OneAtATime ==
    (mode = "map" /\ sizePower = 0) =>
        /\ InFlight <= 1
        /\ (ReadsToEnd /\ kpc = "done") => out = MapF(S)
        /\ ReadsToEnd => (kpc = "done" \/ ENABLED NextMap)

C8_Witness ==
    /\ mode = "map" /\ sizePower = 0 /\ target = Nil
    /\ kpc = "done" /\ Len(S) = 3 /\ out = MapF(S)

\* C9: CDo returns, and when it has returned f has been applied exactly once
\* to every element and no application is still running or not yet started.
C9_DoCompletes ==
    mode = "do" =>
        /\ kpc = "done" =>
              /\ \A e \in Elems : Occurrences(applied, e) = Occurrences(S, e)
              /\ \A i \in DOMAIN workers : workers[i].st = "done"
        /\ kpc = "done" \/ ENABLED NextDo

\* C10: the channel of CFlatMap, read to the end, has carried the
\* concatenation G(S_0) ++ ... ++ G(S_{n-1}).
C10_FlatMapConcat == (mode = "flatmap" /\ cChan = "closed") => cOut = ConcatG(S)

\* C11: when f has failed in a worker, the engine tears down: the failure is
\* handed on, outstanding workers drain and the channels get closed, so
\* until the output channel is closed and the consumer has returned some
\* step is possible.
C11_FailureTeardown ==
    proc = "aborted" =>
        ((outChan = "closed" /\ kpc = "done") \/ ENABLED NextFail)

\* C12: Find applies the predicate to the elements in order up to and
\* including the first match and to none after it, returns the first match
\* or nil; on a concurrent sequence the channel is closed when Find has
\* returned, after a match as well as at the end of the sequence.
C12_Find ==
    /\ mode = "find" =>
          /\ applied = SubSeq(S, 1, Len(applied))
          /\ Len(applied) <= Len(FindApplied(S))
          /\ kpc = "done" =>
                /\ applied = FindApplied(S)
                /\ found = FindResult(S)
                /\ inputChan = "closed"
    /\ (mode = "sfind" /\ spc = "done") =>
          /\ reg.applied = FindApplied(S)
          /\ reg.result = FindResult(S)

\* a concurrent Find has returned its match with elements left unread
C12_Witness ==
    /\ mode = "find" /\ kpc = "done"
    /\ found # Nil /\ Len(applied) >= 2 /\ Len(applied) < Len(S)
    /\ inputChan = "closed"

\* C15: s.Concurrent().Sequential() has the elements of s in the order of s:
\* when the Do under SMap has returned, the slice it filled equals s.
C15_RoundTrip == (mode = "find" /\ target = Nil /\ kpc = "done") => out = S

C15_Witness ==
    /\ mode = "find" /\ target = Nil /\ kpc = "done"
    /\ Len(S) = 3 /\ S[1] # S[2] /\ out = S

\* C13: a concurrent sequence value consumed to the end twice in succession
\* yields the same elements in the same order both times.
C13_SameTwice == (run = 2 /\ kpc = "done") => out = prevOut

\* C14: materializing s.CMap(F, k) returns, and the slice it returns holds
\* the elements of s.SMap(F) in the same order.
C14_SameAsSMap ==
    ReadsToEnd => IF kpc = "done" THEN out = MapF(S) ELSE ENABLED NextMap

\* C16: computing x.Append(a) and then x.Append(b) leaves the elements and
\* the length of x and of the earlier result x.Append(a) as they were.
C16_Immutable ==
    /\ spc \in {"a", "b"} => ElsOf(heap, reg.x) = reg.xEls
    /\ spc = "b" => ElsOf(heap, reg.r1) = reg.r1Els

\* C17: Append, Prepend, Filter, Map and FlatMap return a concurrent
\* sequence if and only if the receiver is concurrent, whatever the
\* realization of the argument.
C17_KeepsRealization ==
    (mode = "dispatch" /\ spc = "done") =>
        IsConcurrent(reg.res) = IsConcurrent(reg.recv)

\* a materialized receiver was given a concurrent argument by Prepend
C17_Witness ==
    /\ mode = "dispatch" /\ spc = "done" /\ reg.method = "Prepend"
    /\ ~IsConcurrent(reg.recv) /\ IsConcurrent(reg.arg)
    /\ ~IsConcurrent(reg.res)
    /\ ElsOf(heap, reg.res) = reg.argEls \o S /\ Len(S) >= 2 /\ reg.argEls # <<>>

\* C18: Combinations and Product return a concurrent sequence when applied
\* to a concurrent sequence and a materialized one when applied to a
\* materialized sequence.
C18_KeepsDriving ==
    (mode \in {"comb", "product"} /\ spc = "done") =>
        IsConcurrent(reg.res) = IsConcurrent(reg.s)

\* C19: for s with distinct elements, s.Combinations(k) holds every
\* sub-collection of s of size 0 to k exactly once and nothing else, each
\* with its elements in the order of s.
C19_Combinations ==
    (mode = "comb" /\ spc = "done") =>
        LET r == Tuples(heap, reg.res) IN
        /\ {r[i] : i \in 1..Len(r)} = SubCollections(S, reg.number)
        /\ Len(r) = Cardinality(SubCollections(S, reg.number))

\* three elements, sizes up to two: the seven sub-collections
C19_Witness ==
    /\ mode = "comb" /\ spc = "done"
    /\ Len(S) = 3 /\ reg.number = 2 /\ reg.res.len = 7
    /\ \E i \in 1..7 : Tuples(heap, reg.res)[i] = <<S[1], S[3]>>

\* C20: Product returns all tuples over the factors, in lexicographic order,
\* each once, and when the product has been computed each returned tuple
\* holds its own elements.
C20_Product ==
    (mode = "product" /\ spc = "done") =>
        Tuples(heap, reg.res) = LexProduct(Factors(reg.lens))

\* C30: after any sequence of Set, RemoveFirst, Get and GetFirst calls,
\* 0 <= count <= C, count is the number of slots marked present,
\* 0 <= start < C, every present slot holds the value stored for an absolute
\* index in [base, base + C), and base never decreases.
C30_WindowInvariant ==
    /\ [](mode = "window" =>
            /\ 0 <= Count(window) /\ Count(window) <= Capacity(window)
            /\ Capacity(window) = Pow2(sizePower)
            /\ Count(window) = Populated
            /\ 0 <= window.start /\ window.start < Capacity(window)
            /\ \A i \in window.base..Max(window) :
                   window.values[SlotOf(window, i)].present =>
                       /\ reg.stored[i] # Nil
                       /\ window.values[SlotOf(window, i)].value = reg.stored[i])
    /\ [][window'.base >= window.base]_vars

\* the ring has wrapped: the first slot is not slot 0, the window is full
\* and the values of its two slots differ
C30_Witness ==
    /\ mode = "window" /\ sizePower = 1
    /\ window.base = 3 /\ window.start = 1 /\ IsFull(window)
    /\ window.values[0].value # window.values[1].value

\* C29: the channel of a concurrent filter is written by one task only: at
\* most one task ever sends on it.
C29_SingleSender == mode = "filter" => Cardinality(SendersOnC) <= 1

\* C27: for every index i the events come in the order produce S_i, worker
\* f(S_i), slot write, emit: a worker that has started holds the element the
\* upstream produced at position i, a filled slot holds the result of a
\* worker that has replied, and a result is emitted only after its worker
\* has replied and its slot was written (the window has moved past it).
C27_HappensBefore ==
    mode = "map" =>
        /\ \A i \in DOMAIN workers :
               workers[i].st # "idle" =>
                   i < sent /\ workers[i].index = i /\ workers[i].value = S[i + 1]
        /\ \A i \in window.base..Max(window) :
               window.values[SlotOf(window, i)].present =>
                   /\ i \in DOMAIN workers
                   /\ workers[i].st = "done"
                   /\ window.values[SlotOf(window, i)].value = F(S[i + 1])
        /\ \A i \in 0..(Len(out) - 1) :
               /\ i \in DOMAIN workers
               /\ workers[i].st = "done"
               /\ i < window.base
               /\ out[i + 1] = F(S[i + 1])

\* index 0 has been emitted, index 1 is still with its worker and the result
\* of index 2 waits in its slot
C27_Witness ==
    /\ mode = "map" /\ sizePower = 1 /\ Len(out) = 1 /\ Len(S) >= 3
    /\ workers[1].st = "running"
    /\ workers[2].st = "done" /\ Get(window, 2)[2]

\* C28: every element taken from the upstream is handed to exactly one
\* worker, whose index is the element's position; no worker is spawned once
\* the end of the stream has been observed or while pending >= N; when the
\* consumption is complete f has been invoked exactly once per element.
C28_IngestEdge ==
    /\ [](mode = "do" =>
            /\ inputCount = sent
            /\ \A i \in DOMAIN workers :
                   /\ workers[i].st # "idle" <=> i < inputCount
                   /\ workers[i].st # "idle" =>
                          workers[i].index = i /\ workers[i].value = S[i + 1]
            /\ \A e \in Elems : Occurrences(applied, e) <= Occurrences(S, e)
            /\ kpc = "done" =>
                   \A e \in Elems : Occurrences(applied, e) = Occurrences(S, e))
    /\ [][(inputClosed \/ pendingInput >= size) =>
              (inputCount' = inputCount /\ sent' = sent
               /\ \A i \in DOMAIN workers :
                      workers[i].st = "idle" => workers'[i].st = "idle")]_vars

\* a complete consumption of four elements with N = 2 in which f returned in
\* another order than the elements came
C28_Witness ==
    /\ mode = "do" /\ sizePower = 1 /\ kpc = "done"
    /\ Len(S) = 4 /\ Len(applied) = 4 /\ applied # S

\* C24: Len of a concurrent sequence (the number of times Find applies Len's
\* closure, which never returns true) equals the length of Sequential(s) and
\* the number of elements the producer sent, all of them; the traversal is
\* complete and the channel is closed when Len returns.
C24_Len ==
    (mode = "find" /\ target = Nil /\ kpc = "done") =>
        /\ Len(applied) = Len(out)
        /\ Len(applied) = sent
        /\ sent = Len(S)
        /\ inputChan = "closed"

C24_Witness ==
    /\ mode = "find" /\ target = Nil /\ kpc = "done"
    /\ Len(applied) = 3 /\ S[1] # S[2]

\* C25: when Fold returns, its result is z (+) S_0 (+) ... (+) S_{n-1} taken
\* in sequence order, on the concurrent realization and on the materialized
\* one alike, so Fold(s, z, op) = Fold(Sequential(s), z, op).
C25_Fold ==
    /\ (mode = "fold" /\ kpc = "done") =>
           reg.acc = reg.z \o S /\ reg.acc = SeqFold(S, 1, reg.z)
    /\ (mode = "sfold" /\ spc = "done") => reg.acc = reg.z \o S

\* a concurrent fold of three elements, not all equal, from a non-empty z
C25_Witness ==
    /\ mode = "fold" /\ kpc = "done"
    /\ Len(S) = 3 /\ S[1] # S[3] /\ reg.z # <<>>

\* C26: for 0 <= n <= Len(s), FirstN(s, n) does not fail, returns an array of
\* length n holding the first n elements of s in order, and its closure has
\* been applied to no more than n elements of s.
C26_FirstN ==
    mode \in {"firstn", "sfirstn"} =>
        /\ proc = "running"
        /\ reg.x <= reg.n
        /\ ((mode = "firstn" /\ kpc = "done") \/ (mode = "sfirstn" /\ spc = "done")) =>
               /\ Len(reg.r) = reg.n
               /\ reg.r = SubSeq(S, 1, reg.n)

\* C21: Rest never fails; read to the end it yields S_1..S_{n-1} in order
\* (nothing for an empty S), on both realizations; each invocation of a
\* concurrent Rest restarts the upstream, discards exactly one element (none
\* of an empty upstream) and yields the same elements again.
C21_Rest ==
    mode \in {"rest", "srest"} =>
        /\ proc = "running"
        /\ (mode = "rest" /\ kpc = "done") =>
               /\ out = SubSeq(S, 2, Len(S))
               /\ reg.discarded = (IF S = <<>> THEN 0 ELSE 1)
               /\ run = 2 => prevOut = out
        /\ (mode = "srest" /\ spc = "done") =>
               ElsOf(heap, reg.res) = SubSeq(S, 2, Len(S))

\* C23: a.Append(b) yields the elements of a then those of b, a.Prepend(b)
\* those of b then those of a, in their original order, whether a and b are
\* materialized or concurrent: as the contents of the materialized result,
\* or as what a reader of the concurrent result has received at its end (and
\* a prefix of it before).
Concatenation ==
    IF reg.method = "Append" THEN S \o reg.argEls ELSE reg.argEls \o S

C23_Concat ==
    (mode = "dispatch" /\ spc \in {"done", "output", "closed"}
     /\ reg.method \in {"Append", "Prepend"}) =>
        /\ ~IsConcurrent(reg.res) => ElsOf(heap, reg.res) = Concatenation
        /\ IsConcurrent(reg.res) =>
               /\ Len(out) <= Len(Concatenation)
               /\ out = SubSeq(Concatenation, 1, Len(out))
               /\ kpc = "done" => out = Concatenation

\* a concurrent receiver was given a materialized argument by Prepend and
\* the result was read to the end
C23_Witness ==
    /\ mode = "dispatch" /\ reg.method = "Prepend" /\ kpc = "done"
    /\ reg.recvConc /\ ~reg.argConc
    /\ Len(S) >= 2 /\ S[1] # S[2] /\ reg.argEls = <<8, 9>>
    /\ out = <<8, 9>> \o S

\* C22: for the injective F and every predicate p, s.Map(F).Filter(p) read
\* to the end has the same elements in the same order as
\* s.Filter(p o F).Map(F), on a materialized s and on a concurrent s.
C22_FilterMapLaw ==
    (mode \in {"map", "slaw"} /\ spc = "done") => reg.left = reg.right

\* C31: Set(i, v) returns true exactly when base <= i <= Max(); a rejected
\* Set leaves start, base, count and every slot as they were; an accepted Set
\* stores v at i, and on an index already present leaves count as it was (on
\* an absent one count grows by one); no other index is touched.
C31_SetRange ==
    [][\A index \in Indices, value \in Elems :
          WSet(index, value) =>
              /\ reg'.ret[1] = (window.base <= index /\ index <= Max(window))
              /\ Max(window) = window.base + Capacity(window) - 1
              /\ ~reg'.ret[1] => window' = window
              /\ reg'.ret[1] =>
                    /\ Get(window', index) = <<value, TRUE>>
                    /\ window'.start = window.start /\ window'.base = window.base
                    /\ Count(window') = IF Get(window, index)[2]
                                        THEN Count(window) ELSE Count(window) + 1
                    /\ \A j \in Indices \ {index} :
                          Get(window', j) = Get(window, j)]_vars

\* a Set on the index just above the window was rejected while the window
\* had wrapped, and a Set on a present index had replaced its value before
C31_Witness ==
    /\ mode = "window" /\ sizePower = 1 /\ window.base = 1 /\ window.start = 1
    /\ reg.ret = <<FALSE>>
    /\ Count(window) = 2 /\ reg.stored[1] = 2 /\ reg.stored[2] = 1

\* C33: the window is addressed by absolute index across the wrap of the
\* ring: Get(i) is (v, true) exactly for the indices i whose last accepted
\* Set stored v and that have not been popped since, (nil, false) for every
\* other index, popped ones included; GetFirst equals Get(base).
C33_AbsoluteIndex ==
    mode = "window" =>
        /\ \A i \in Indices :
               Get(window, i) = IF reg.stored[i] # Nil THEN <<reg.stored[i], TRUE>>
                                ELSE <<Nil, FALSE>>
        /\ \A i \in Indices : i < window.base => Get(window, i) = <<Nil, FALSE>>
        /\ GetFirst(window) = Get(window, window.base)

\* after three pops of a window of two slots the index 4 is held in ring
\* slot 0 and the first slot (index 3, ring slot 1) is empty
C33_Witness ==
    /\ mode = "window" /\ sizePower = 1 /\ window.base = 3 /\ window.start = 1
    /\ reg.stored[4] = 2 /\ reg.stored[3] = Nil
    /\ reg.ret = <<2, TRUE>>

\* C34: RemoveFirst on a present first slot returns its value and true,
\* clears it, takes one from count and adds one to base, every other index
\* keeping what it held; on an empty first slot it returns (nil, false) and
\* leaves the window as it was, whatever the later slots hold.
C34_RemoveFirst ==
    [][WRemoveFirst =>
          IF Get(window, window.base)[2]
          THEN /\ reg'.ret = <<Get(window, window.base)[1], TRUE>>
               /\ window'.base = window.base + 1
               /\ Count(window') = Count(window) - 1
               /\ Get(window', window.base) = <<Nil, FALSE>>
               /\ \A j \in Indices \ {window.base} :
                     Get(window', j) = Get(window, j)
          ELSE /\ reg'.ret = <<Nil, FALSE>>
               /\ window' = window]_vars

\* RemoveFirst has popped before and now found the first slot empty while
\* the slot after it is populated
C34_Witness ==
    /\ mode = "window" /\ sizePower = 1 /\ window.base = 2
    /\ reg.ret = <<Nil, FALSE>>
    /\ ~GetFirst(window)[2] /\ Get(window, 3)[2] /\ Count(window) = 1

\* C35: the coordinator's counters are conserved: every ingested element is
\* emitted, waiting in the window or still with a worker, that is
\* inputCount = base + Count() + pendingInput, and pendingInput >= 0 is the
\* number of spawned workers whose reply has not been collected.
C35_Conservation ==
    mode = "map" =>
        /\ pendingInput >= 0
        /\ pendingInput = Live
        /\ inputCount = window.base + Count(window) + pendingInput

\* C36: a full window (collect edge disabled) has its first slot populated
\* (emit edge enabled): in the loop, with the window full, the coordinator
\* always has the emit case in its select.
C36_FullHasFirst ==
    mode = "map" =>
        /\ IsFull(window) => GetFirst(window)[2]
        /\ (cpc = "loop" /\ ~CollectEnabled) => (LoopCond /\ EmitEnabled)

\* the window of two slots is full after a wrap, with a worker waiting to
\* reply and the ingest edge still open
C36_Witness ==
    /\ mode = "map" /\ sizePower = 1 /\ cpc = "loop"
    /\ IsFull(window) /\ ~CollectEnabled /\ window.start = 1
    /\ pendingInput = 1 /\ IngestEnabled
    /\ \E i \in DOMAIN workers : workers[i].st = "replying"

\* C37: when the coordinator closes the reply channel pendingInput is 0 and
\* no spawned worker is running or waiting to send its reply, so no worker
\* sends on the closed reply channel, also when the consumer has stopped
\* reading the output early.
C37_ReplyClose ==
    /\ [](mode = "map" /\ replyChan = "closed" => pendingInput = 0 /\ Live = 0)
    /\ [][replyChan' = "closed" =>
             pendingInput = 0 /\ Live = 0 /\ workers' = workers]_vars

\* Find stopped at the first of three elements; the coordinator went on,
\* collected the other two replies and closed the reply channel
C37_Witness ==
    /\ mode = "map" /\ replyChan = "closed"
    /\ found # Nil /\ Len(out) = 1 /\ Len(S) = 3 /\ inputCount = 3
    /\ \A i \in DOMAIN workers : workers[i].st = "done"

\* C38: while Find consumes a concurrent sequence no task sends on the
\* element channel once it is closed, and the channel is closed once: the
\* close that Find defers finds it open.
C38_ClosedOnce ==
    /\ [][(mode = "find" /\ inputChan = "closed") => sent' = sent]_vars
    /\ [][(mode = "find" /\ (FindEOF \/ FindClose)) => inputChan = "open"]_vars

\* C39: CFilter sends on its channel c no element that the predicate
\* rejects and no accepted element more often than it occurs in S; when c
\* is closed, and in every state where no task can take a step, each
\* accepted element has been sent exactly as often as it occurs in S; no
\* worker is about to send when c is closed and nothing is sent afterwards.
C39_FilterSends ==
    /\ [](mode = "filter" =>
            /\ \A j \in 1..Len(cOut) : P(cOut[j])
            /\ \A e \in Elems : Occurrences(cOut, e) <= Occurrences(FilterP(S), e)
            /\ (cChan = "closed" \/ ~ENABLED NextFilter) =>
                  /\ \A e \in Elems :
                        Occurrences(cOut, e) = Occurrences(FilterP(S), e)
                  /\ \A i \in DOMAIN workers : workers[i].st = "done")
    /\ [][cChan = "closed" => cOut' = cOut]_vars

\* three elements, the first and the last accepted and sent, the second
\* rejected, and c closed after CDo returned
C39_Witness ==
    /\ mode = "filter" /\ cChan = "closed" /\ sizePower = 1
    /\ S = <<1, 2, 1>> /\ pass = {1} /\ cOut = <<1, 1>>
    /\ kpc = "done"

\* C32: in the CMap that keeps pendingOutput, the counter equals the number
\* of populated window slots (and window.count) in every reachable state,
\* so its loop condition and its collect gate are those of the version
\* that asks window.Count().
C32_PendingOutput ==
    mode = "map" =>
        /\ reg.pendingOutput = Populated
        /\ reg.pendingOutput = Count(window)
        /\ VLoopCond <=> LoopCond
        /\ VCollectEnabled <=> CollectEnabled

====
